---- MODULE Spec2Model ----
(***************************************************************************)
(* Model of pkg/internal/sqlsmith/schema.go: the schema cache of the       *)
(* Smither (tables, indexes, the reader/writer lock, the random picks),    *)
(* the row grouper extractTables and the index assembler extractIndexes.   *)
(*                                                                         *)
(* Three specifications share the module:                                  *)
(*   SpecTables   extractTables applied to every bounded column result     *)
(*   SpecIndexes  extractIndexes applied to every bounded index result     *)
(*   Spec         threads calling ReloadSchemas and the readers            *)
(***************************************************************************)
EXTENDS Integers, Sequences, FiniteSets, TLC

VARIABLES
    hasDB,      \* s.db != nil
    db,         \* the database s.db is connected to
    tables,     \* s.tables
    indexes,    \* s.indexes
    lockW,      \* s.lock: the writer that has announced itself (0: none)
    lockR,      \* s.lock: the threads holding the shared lock
    pre,        \* history: tables/indexes when the writer got the lock
    op,         \* per thread: the method it was called with
    pc,         \* per thread: its position in the code
    arg,        \* per thread: the table parameter of getIndexes/getRandTableIndex
    tref,       \* per thread: what getRandTable returned
    idxs,       \* per thread: what getIndexes returned (local `indexes`)
    ret,        \* per thread: what the (*TableIndexName, *CreateIndex, bool) methods return
    err,        \* per thread: what ReloadSchemas returns
    rnd,        \* s.rnd: the state of the randomness source
    gIn,        \* SpecTables: the result of the column query
    gOut,       \* SpecTables: what extractTables returned
    gpc,        \* SpecTables: position
    xIn,        \* SpecIndexes: the tables and the results of the index queries
    xOut,       \* SpecIndexes: what extractIndexes returned
    xpc,        \* SpecIndexes: position
    fIn,        \* SpecFunctions: tree.FunDefs, in the order the range loop visits it
    fOut,       \* SpecFunctions: the map `functions`
    fpc,        \* SpecFunctions: position
    oIn,        \* SpecOperators: tree.BinOps
    oOut,       \* SpecOperators: the map `operators`
    opc         \* SpecOperators: position

vars == <<hasDB, db, tables, indexes, lockW, lockR, pre, op, pc, arg, tref, idxs,
          ret, err, rnd, gIn, gOut, gpc, xIn, xOut, xpc,
          fIn, fOut, fpc, oIn, oOut, opc>>

cacheVars == <<hasDB, db, tables, indexes, lockW, lockR, pre, op, pc, arg, tref,
               idxs, ret, err, rnd>>
groupVars == <<gIn, gOut, gpc>>
indexVars == <<xIn, xOut, xpc>>
catalogVars == <<fIn, fOut, fpc, oIn, oOut, opc>>

(***************************************************************************)
(* Bounds                                                                  *)
(***************************************************************************)
MaxRows == 3        \* column rows per query result in SpecTables
MaxIdxRows == 3     \* index rows over all tables in SpecIndexes
MaxDbRows == 2      \* column rows per query result in Spec
RndPeriod == 2      \* states of the randomness source in Spec

\* A nil pointer (a record, so that it compares with the records pointed to).
Nil == [nil |-> TRUE]
Range(s) == {s[i] : i \in DOMAIN s}

\* How a query ends: all rows delivered ("ok"); db.Query returns an error
\* ("query"); rows.Scan fails on the row after the delivered ones ("scan");
\* rows.Next stops after the delivered ones and rows.Err() is set ("iter").
FailModes == {"ok", "query", "scan", "iter"}

(***************************************************************************)
(* extractTables                                                           *)
(***************************************************************************)
\* typeFromName: the textual type of a column to its semantic type.
typeFromName(typ) ==
    CASE typ = "INT8" -> "int"
      [] typ = "STRING" -> "string"
      [] typ = "BOOL" -> "bool"
      [] OTHER -> "unknown"

\* tree.NewTableName(catalog, name)
NewTableName(catalog, name) == [catalog |-> catalog, table |-> name]

\* The tree.ColumnTableDef built from one row.
ColumnDef(r) ==
    [Name |-> r.col, Type |-> typeFromName(r.typ),
     Nullable |-> IF r.nullable THEN "Null" ELSE "NotNull",
     Computed |-> r.computed]

\* The closure emit: append the pending table when its schema is public.
emit(st) ==
    IF st.lastSchema # "public" THEN st.tables
    ELSE Append(st.tables,
                [TableName |-> NewTableName(st.lastCatalog, st.lastName),
                 Columns |-> st.currentCols])

\* The locals of extractTables before the loop.
GroupInit ==
    [firstTime |-> TRUE, lastCatalog |-> "", lastSchema |-> "", lastName |-> "",
     tables |-> <<>>, currentCols |-> <<>>]

Retained_all(r) == TRUE
\* if hidden { continue }
Retained(r) == ~r.hidden

\* lastCatalog != catalog || lastSchema != schema || lastName != name
KeyChanged(st, r) ==
    st.lastCatalog # r.catalog \/ st.lastSchema # r.schema \/ st.lastName # r.name

\* One iteration of the loop over rows.
RowStep(st, r) ==
    IF ~Retained(r) THEN st
    ELSE LET s1 == IF st.firstTime
                   THEN [st EXCEPT !.lastCatalog = r.catalog,
                                   !.lastSchema = r.schema,
                                   !.lastName = r.name]
                   ELSE st
             s2 == [s1 EXCEPT !.firstTime = FALSE]
             s3 == IF KeyChanged(s2, r)
                   THEN [s2 EXCEPT !.tables = emit(s2), !.currentCols = <<>>]
                   ELSE s2
         IN [s3 EXCEPT !.currentCols = Append(@, ColumnDef(r)),
                       !.lastCatalog = r.catalog,
                       !.lastSchema = r.schema,
                       !.lastName = r.name]

RECURSIVE GroupLoop(_, _, _)
GroupLoop(st, rows, i) ==
    IF i > Len(rows) THEN st ELSE GroupLoop(RowStep(st, rows[i]), rows, i + 1)

Flush_dropLast(st) == st.tables
\* if !firstTime { emit() }
Flush(st) == IF ~st.firstTime THEN emit(st) ELSE st.tables

\* extractTables(db) for the column query ending as q.fail after q.rows.
extractTables(q) ==
    IF q.fail = "query" THEN [tables |-> <<>>, err |-> TRUE]
    ELSE LET st == GroupLoop(GroupInit, q.rows, 1)
         IN IF q.fail = "scan" THEN [tables |-> <<>>, err |-> TRUE]
            ELSE [tables |-> Flush(st), err |-> (q.fail = "iter")]

(***************************************************************************)
(* extractIndexes                                                          *)
(***************************************************************************)
\* Go maps are functions with a finite domain.
EmptyMap == [x \in {} |-> Nil]
Put(m, k, v) == [x \in DOMAIN m \cup {k} |-> IF x = k THEN v ELSE m[x]]

\* &tree.CreateIndex{Name: idx, Table: *t.TableName}
NewCreateIndex(idx, tn) ==
    [Name |-> idx, Table |-> tn, Columns |-> <<>>, Storing |-> <<>>]

Direction_flipped(ascending) == IF ascending THEN "Descending" ELSE "Ascending"
\* dir := tree.Ascending; if !ascending { dir = tree.Descending }
Direction(ascending) == IF ascending THEN "Ascending" ELSE "Descending"

Lookup_alwaysNew(m, idx, tn) == NewCreateIndex(idx, tn)
\* if _, ok := indexes[idx]; !ok { indexes[idx] = &tree.CreateIndex{...} }
\* create := indexes[idx]
Lookup(m, idx, tn) == IF idx \in DOMAIN m THEN m[idx] ELSE NewCreateIndex(idx, tn)

\* One iteration of the loop over the index rows of table tn.
IndexRowStep(m, tn, r) ==
    LET create == Lookup(m, r.idx, tn)
    IN IF r.storing
       THEN Put(m, r.idx, [create EXCEPT !.Storing = Append(@, r.col)])
       ELSE Put(m, r.idx,
                [create EXCEPT !.Columns =
                    Append(@, [Column |-> r.col,
                               Direction |-> Direction(r.ascending)])])

RECURSIVE IndexLoop(_, _, _, _)
IndexLoop(m, tn, rows, i) ==
    IF i > Len(rows) THEN m
    ELSE IndexLoop(IndexRowStep(m, tn, rows[i]), tn, rows, i + 1)

Store_skipEmpty(retm, tn, m) == IF DOMAIN m = {} THEN retm ELSE Put(retm, tn, m)
\* ret[*t.TableName] = indexes
Store(retm, tn, m) == Put(retm, tn, m)

\* return nil, err
IndexesNil == [isNil |-> TRUE, m |-> EmptyMap]

RECURSIVE TableLoop(_, _, _, _)
TableLoop(retm, tbls, res, k) ==
    IF k > Len(tbls)
    THEN [indexes |-> [isNil |-> FALSE, m |-> retm], err |-> FALSE]
    ELSE IF res[k].fail = "query"
    THEN [indexes |-> IndexesNil, err |-> TRUE]
    ELSE LET m == IndexLoop(EmptyMap, tbls[k].TableName, res[k].rows, 1)
         IN IF res[k].fail # "ok"
            THEN [indexes |-> IndexesNil, err |-> TRUE]
            ELSE TableLoop(Store(retm, tbls[k].TableName, m), tbls, res, k + 1)

\* extractIndexes(db, tables): res[k] is how the index query of tables[k] ends.
extractIndexes(tbls, res) == TableLoop(EmptyMap, tbls, res, 1)

(***************************************************************************)
(* The inputs                                                              *)
(***************************************************************************)
\* (catalog, schema, table) of the column rows: they differ in each part.
GroupKeys ==
    {<<"d", "public", "t1">>, <<"d", "public", "t2">>,
     <<"d", "other", "t1">>, <<"e", "public", "t1">>}

ColumnNames == {"a", "b"}

ColumnRow(k, c, h) ==
    [catalog |-> k[1], schema |-> k[2], name |-> k[3], col |-> c,
     typ |-> IF c = "a" THEN "INT8" ELSE "STRING",
     computed |-> (c = "b"), nullable |-> (c = "a"), hidden |-> h]

ColumnRows == {ColumnRow(k, c, h) : k \in GroupKeys, c \in ColumnNames, h \in BOOLEAN}

IndexNames == {"i1", "i2"}

\* SHOW INDEXES gives no direction for a storing column: direction = 'ASC' is false.
IndexRows ==
    {[idx |-> i, col |-> c, storing |-> FALSE, ascending |-> a] :
        i \in IndexNames, c \in ColumnNames, a \in BOOLEAN}
    \cup {[idx |-> i, col |-> c, storing |-> TRUE, ascending |-> FALSE] :
        i \in IndexNames, c \in ColumnNames}

TableRef(name) ==
    [TableName |-> NewTableName("d", name),
     Columns |-> <<ColumnDef(ColumnRow(<<"d", "public", name>>, "a", FALSE))>>]

IdxTableLists ==
    {<<>>, <<TableRef("t1")>>, <<TableRef("t2")>>,
     <<TableRef("t1"), TableRef("t2")>>, <<TableRef("t2"), TableRef("t1")>>}

(***************************************************************************)
(* The schema cache: threads                                               *)
(***************************************************************************)
Threads == {1, 2}

NoTable == NewTableName("", "")
NoTref == [ok |-> FALSE, table |-> Nil]
\* return nil, nil, false
NoRet == [ok |-> FALSE, name |-> Nil, index |-> Nil]

\* A new Smither: no tables, no indexes, the lock free, every thread outside.
CacheStart(dbs) ==
    /\ hasDB \in dbs
    /\ tables = <<>>
    /\ indexes = IndexesNil
    /\ lockW = 0
    /\ lockR = {}
    /\ pre = Nil
    /\ op = [t \in Threads |-> "idle"]
    /\ pc = [t \in Threads |-> "idle"]
    /\ arg = [t \in Threads |-> NoTable]
    /\ tref = [t \in Threads |-> NoTref]
    /\ idxs = [t \in Threads |-> IndexesNil]
    /\ ret = [t \in Threads |-> NoRet]
    /\ err = [t \in Threads |-> FALSE]
    /\ rnd = 0

\* The database behind s.db: the tables of DbColumnListing it holds and the
\* indexes of DbIndexListing each of them has.
WholeDb == [tables |-> {"t1", "t2"}, indexes |-> {"i1", "i2"}]
SmallDb == [tables |-> {"t1"}, indexes |-> {"i1"}]

CacheInit == CacheStart(BOOLEAN) /\ db = WholeDb
CacheOff == CacheStart({FALSE}) /\ db = WholeDb

FunctionsOff ==
    /\ fIn = <<>>
    /\ fOut = EmptyMap
    /\ fpc = "off"

OperatorsOff ==
    /\ oIn = EmptyMap
    /\ oOut = EmptyMap
    /\ opc = "off"

CatalogOff == FunctionsOff /\ OperatorsOff

GroupOff ==
    /\ gIn = [fail |-> "ok", rows |-> <<>>]
    /\ gOut = [tables |-> <<>>, err |-> FALSE]
    /\ gpc = "off"

IndexOff ==
    /\ xIn = [tables |-> <<>>, res |-> <<>>]
    /\ xOut = [indexes |-> IndexesNil, err |-> FALSE]
    /\ xpc = "off"

(***************************************************************************)
(* SpecTables: extractTables on every column result of at most MaxRows     *)
(* rows. The query delivers its rows one by one, then ends in one of       *)
(* FailModes and extractTables returns.                                    *)
(***************************************************************************)
InitTables ==
    /\ GroupOff
    /\ CacheOff
    /\ IndexOff
    /\ CatalogOff

StartColumnQuery ==
    /\ gpc = "off"
    /\ gpc' = "rows"
    /\ UNCHANGED <<gIn, gOut, cacheVars, indexVars, catalogVars>>

NextColumnRow ==
    /\ gpc = "rows"
    /\ Len(gIn.rows) < MaxRows
    /\ \E r \in ColumnRows : gIn' = [gIn EXCEPT !.rows = Append(@, r)]
    /\ UNCHANGED <<gOut, gpc, cacheVars, indexVars, catalogVars>>

RunExtractTables ==
    /\ gpc = "rows"
    /\ \E f \in FailModes :
          /\ f = "query" => gIn.rows = <<>>    \* a failed db.Query delivers no row
          /\ gIn' = [gIn EXCEPT !.fail = f]
    /\ gOut' = extractTables(gIn')
    /\ gpc' = "done"
    /\ UNCHANGED <<cacheVars, indexVars, catalogVars>>

NextTables == StartColumnQuery \/ NextColumnRow \/ RunExtractTables

SpecTables == InitTables /\ [][NextTables]_vars

(***************************************************************************)
(* Claims about extractTables (SpecTables)                                 *)
(***************************************************************************)
Key(r) == <<r.catalog, r.schema, r.name>>
Indices(rows) == [i \in 1..Len(rows) |-> i]
Visible(rows) == SelectSeq(rows, LAMBDA r : ~r.hidden)
Columns(rows) == [j \in 1..Len(rows) |-> ColumnDef(rows[j])]

\* The rows of one (catalog, schema, table) are contiguous, as ORDER BY leaves them.
Grouped(rows) ==
    \A i, j, k \in 1..Len(rows) :
        (i < j /\ j < k /\ Key(rows[i]) = Key(rows[k])) => Key(rows[j]) = Key(rows[i])

IsRunStart(rows, i) == i = 1 \/ Key(rows[i]) # Key(rows[i - 1])

EveryRunVisible(rows) ==
    \A i \in 1..Len(rows) :
        \E j \in 1..Len(rows) : Key(rows[j]) = Key(rows[i]) /\ ~rows[j].hidden

\* One TableRef per public run of rows, in run order, holding the run's visible rows.
RunTables(rows) ==
    LET starts == SelectSeq(Indices(rows),
                            LAMBDA i : IsRunStart(rows, i) /\ rows[i].schema = "public")
    IN [n \in 1..Len(starts) |->
           [TableName |-> [catalog |-> rows[starts[n]].catalog,
                           table |-> rows[starts[n]].name],
            Columns |-> Columns(SelectSeq(rows,
                            LAMBDA r : Key(r) = Key(rows[starts[n]]) /\ ~r.hidden))]]

\* C4: for column rows grouped by (catalog, schema, table) in which every run
\* has a non-hidden row, extractTables returns no error and exactly one
\* TableRef per run of schema public, none for other schemas, in run order,
\* the last run included; each holds the run's non-hidden rows in input order;
\* no rows give no tables.
C4_GroupingCorrect ==
    (gpc = "done" /\ gIn.fail = "ok" /\ Grouped(gIn.rows) /\ EveryRunVisible(gIn.rows))
        => /\ gOut.err = FALSE
           /\ gOut.tables = RunTables(gIn.rows)
           /\ gIn.rows = <<>> => gOut.tables = <<>>

\* C4 witness: three rows in two or more runs, one of another schema, one row
\* hidden, and the last run public and emitted by the final flush.
C4_Witness ==
    /\ gpc = "done" /\ gIn.fail = "ok" /\ Len(gIn.rows) = 3
    /\ Grouped(gIn.rows) /\ EveryRunVisible(gIn.rows)
    /\ \E i \in 1..3 : gIn.rows[i].schema # "public"
    /\ \E i \in 1..3 : gIn.rows[i].hidden
    /\ Key(gIn.rows[1]) # Key(gIn.rows[3])
    /\ gIn.rows[3].schema = "public"
    /\ Len(gOut.tables) >= 1
    /\ gOut.tables[Len(gOut.tables)].TableName.table = gIn.rows[3].name

\* The last row of the run of equal keys that starts at row i.
RunEnd(rows, i) ==
    CHOOSE j \in i..Len(rows) :
        /\ \A x \in i..j : Key(rows[x]) = Key(rows[i])
        /\ j = Len(rows) \/ Key(rows[j + 1]) # Key(rows[i])

\* One TableRef per maximal run of adjacent rows of one key and schema public,
\* holding all the rows of the run.
AdjacentRunTables(rows) ==
    LET starts == SelectSeq(Indices(rows),
                            LAMBDA i : IsRunStart(rows, i) /\ rows[i].schema = "public")
    IN [n \in 1..Len(starts) |->
           [TableName |-> [catalog |-> rows[starts[n]].catalog,
                           table |-> rows[starts[n]].name],
            Columns |-> Columns(SubSeq(rows, starts[n], RunEnd(rows, starts[n])))]]

\* The keys all of whose rows are hidden.
HiddenOnlyKeys(rows) ==
    {k \in {Key(r) : r \in Range(rows)} :
        \A r \in Range(rows) : Key(r) = k => r.hidden}

\* C5: whatever the rows, the tables returned are those of the non-hidden rows
\* alone: one TableRef per public run of adjacent non-hidden rows with exactly
\* these rows as columns, so no hidden row is a column; no TableRef has an empty
\* column list; and removing the rows of a table that has only hidden rows
\* changes nothing of what is returned.
C5_HiddenExcluded ==
    (gpc = "done" /\ gIn.fail \in {"ok", "iter"})
        => /\ gOut.tables = AdjacentRunTables(Visible(gIn.rows))
           /\ \A n \in 1..Len(gOut.tables) : gOut.tables[n].Columns # <<>>
           /\ \A k \in HiddenOnlyKeys(gIn.rows) :
                 /\ \A n \in 1..Len(gOut.tables) :
                       <<gOut.tables[n].TableName.catalog, "public",
                         gOut.tables[n].TableName.table>> # k
                 /\ extractTables([gIn EXCEPT !.rows =
                        SelectSeq(gIn.rows, LAMBDA r : Key(r) # k)]).tables
                    = gOut.tables

\* C5 witness: a public table with only a hidden row sits between two other
\* public tables, which are both returned.
C5_Witness ==
    /\ gpc = "done" /\ gIn.fail = "ok" /\ Len(gIn.rows) = 3
    /\ gIn.rows[2].hidden /\ ~gIn.rows[1].hidden /\ ~gIn.rows[3].hidden
    /\ \A i \in 1..3 : gIn.rows[i].schema = "public"
    /\ Key(gIn.rows[1]) # Key(gIn.rows[2])
    /\ Key(gIn.rows[2]) # Key(gIn.rows[3])
    /\ Key(gIn.rows[1]) # Key(gIn.rows[3])
    /\ Len(gOut.tables) = 2

(***************************************************************************)
(* SpecIndexes: extractIndexes on every list of tables and every run of    *)
(* index queries with at most MaxIdxRows rows in all. extractIndexes       *)
(* stops at the first query that fails, so only the last query of an       *)
(* input fails.                                                            *)
(***************************************************************************)
InitIndexes ==
    /\ IndexOff
    /\ CacheOff
    /\ GroupOff
    /\ CatalogOff

RECURSIVE TotalRows(_)
TotalRows(res) ==
    IF res = <<>> THEN 0 ELSE Len(Head(res).rows) + TotalRows(Tail(res))

\* Every query extractIndexes issues for xIn.tables has its result.
InputComplete ==
    \/ Len(xIn.res) = Len(xIn.tables)
    \/ Len(xIn.res) > 0 /\ xIn.res[Len(xIn.res)].fail # "ok"

StartIndexes ==
    /\ xpc = "off"
    /\ \E ts \in IdxTableLists : xIn' = [xIn EXCEPT !.tables = ts]
    /\ xpc' = "rows"
    /\ UNCHANGED <<xOut, cacheVars, groupVars, catalogVars>>

NextIndexQuery ==
    /\ xpc = "rows"
    /\ ~InputComplete
    /\ xIn' = [xIn EXCEPT !.res = Append(@, [fail |-> "ok", rows |-> <<>>])]
    /\ UNCHANGED <<xOut, xpc, cacheVars, groupVars, catalogVars>>

NextIndexRow ==
    /\ xpc = "rows"
    /\ Len(xIn.res) > 0
    /\ xIn.res[Len(xIn.res)].fail = "ok"
    /\ TotalRows(xIn.res) < MaxIdxRows
    /\ \E r \in IndexRows :
          xIn' = [xIn EXCEPT !.res[Len(xIn.res)].rows = Append(@, r)]
    /\ UNCHANGED <<xOut, xpc, cacheVars, groupVars, catalogVars>>

FailIndexQuery ==
    /\ xpc = "rows"
    /\ Len(xIn.res) > 0
    /\ xIn.res[Len(xIn.res)].fail = "ok"
    /\ \E f \in FailModes \ {"ok"} :
          /\ f = "query" => xIn.res[Len(xIn.res)].rows = <<>>
          /\ xIn' = [xIn EXCEPT !.res[Len(xIn.res)].fail = f]
    /\ UNCHANGED <<xOut, xpc, cacheVars, groupVars, catalogVars>>

RunExtractIndexes ==
    /\ xpc = "rows"
    /\ InputComplete
    /\ xOut' = extractIndexes(xIn.tables, xIn.res)
    /\ xpc' = "done"
    /\ UNCHANGED <<xIn, cacheVars, groupVars, catalogVars>>

NextIndexes ==
    \/ StartIndexes
    \/ NextIndexQuery
    \/ NextIndexRow
    \/ FailIndexQuery
    \/ RunExtractIndexes

SpecIndexes == InitIndexes /\ [][NextIndexes]_vars

(***************************************************************************)
(* Claims about extractIndexes (SpecIndexes)                               *)
(***************************************************************************)
\* extractIndexes returned the catalog of all the tables.
IndexesDone == xpc = "done" /\ ~xOut.err

TableNameAt(k) == xIn.tables[k].TableName
\* The rows of index n among the rows of the k-th table's query.
RowsOf(k, n) == SelectSeq(xIn.res[k].rows, LAMBDA r : r.idx = n)
KeyNames(def) == {def.Columns[i].Column : i \in 1..Len(def.Columns)}
StoringNames(def) == Range(def.Storing)
\* keyColumns as the claim gives them: the non-storing rows in input order.
KeyColumnsOf(rows) ==
    LET ks == SelectSeq(rows, LAMBDA r : ~r.storing)
    IN [j \in 1..Len(ks) |->
           [Column |-> ks[j].col,
            Direction |-> IF ks[j].ascending THEN "Ascending" ELSE "Descending"]]

\* The union and the order of C6, for the IndexDef def built from rows.
PartitionUnion(def, rows) ==
    /\ KeyNames(def) \cup StoringNames(def) = {r.col : r \in Range(rows)}
    /\ def.Columns = KeyColumnsOf(rows)

\* The column names that rows list both as storing and as not storing.
BothWays(rows) ==
    {c \in {r.col : r \in Range(rows)} :
        /\ \E r \in Range(rows) : r.col = c /\ r.storing
        /\ \E r \in Range(rows) : r.col = c /\ ~r.storing}

\* C6 as claimed: for the rows of one index, key and storing names together
\* are the column names of the rows, no name is in both, and keyColumns are
\* the non-storing rows in input order with their direction.
C6_Original ==
    IndexesDone =>
        \A k \in 1..Len(xIn.tables) :
            \A n \in DOMAIN xOut.indexes.m[TableNameAt(k)] :
                LET def == xOut.indexes.m[TableNameAt(k)][n]
                IN /\ PartitionUnion(def, RowsOf(k, n))
                   /\ KeyNames(def) \cap StoringNames(def) = {}

\* C6 amended: as claimed, except that the names in both keyColumns and
\* storingColumns are exactly the names the rows list both as storing and as
\* not storing: there is no overlap only when the rows list no column both ways.
C6_KeyStoringPartition ==
    IndexesDone =>
        \A k \in 1..Len(xIn.tables) :
            \A n \in DOMAIN xOut.indexes.m[TableNameAt(k)] :
                LET def == xOut.indexes.m[TableNameAt(k)][n]
                IN /\ PartitionUnion(def, RowsOf(k, n))
                   /\ KeyNames(def) \cap StoringNames(def) = BothWays(RowsOf(k, n))

\* C6 witness: an index with a descending and an ascending key column of
\* different names and a storing column.
C6_Witness ==
    /\ IndexesDone
    /\ \E k \in 1..Len(xIn.tables) :
          \E n \in DOMAIN xOut.indexes.m[TableNameAt(k)] :
              LET def == xOut.indexes.m[TableNameAt(k)][n]
              IN /\ Len(def.Columns) = 2 /\ Len(def.Storing) = 1
                 /\ def.Columns[1].Direction = "Descending"
                 /\ def.Columns[2].Direction = "Ascending"
                 /\ def.Columns[1].Column # def.Columns[2].Column

\* C7: for each table the mapping has exactly one IndexDef per distinct
\* indexName of its rows, stored under that name, named so, owned by the
\* table queried, and holding as many columns as that index has rows, all of
\* them columns of rows of that index.
C7_IndexFold ==
    IndexesDone =>
        \A k \in 1..Len(xIn.tables) :
            LET m == xOut.indexes.m[TableNameAt(k)]
            IN /\ DOMAIN m = {r.idx : r \in Range(xIn.res[k].rows)}
               /\ \A n \in DOMAIN m :
                     /\ m[n].Name = n
                     /\ m[n].Table = TableNameAt(k)
                     /\ Len(m[n].Columns) + Len(m[n].Storing) = Len(RowsOf(k, n))
                     /\ KeyNames(m[n]) \cup StoringNames(m[n])
                            \subseteq {r.col : r \in Range(RowsOf(k, n))}

\* C7 witness: the rows of two indexes of one table arrive interleaved.
C7_Witness ==
    /\ IndexesDone
    /\ \E k \in 1..Len(xIn.tables) :
          /\ Len(xIn.res[k].rows) = 3
          /\ xIn.res[k].rows[1].idx = xIn.res[k].rows[3].idx
          /\ xIn.res[k].rows[1].idx # xIn.res[k].rows[2].idx
          /\ Len(xOut.indexes.m[TableNameAt(k)][xIn.res[k].rows[1].idx].Columns) = 2

\* C8 as claimed: a table is a key of the catalog only if at least one index
\* row was processed for it.
C8_Original ==
    IndexesDone =>
        \A tn \in DOMAIN xOut.indexes.m :
            \E k \in 1..Len(xIn.tables) :
                TableNameAt(k) = tn /\ Len(xIn.res[k].rows) >= 1

\* C8 amended: after extractIndexes succeeds the keys of the catalog are
\* exactly the tables passed to it; a table whose query gave no rows is a key
\* too, with an empty mapping.
C8_EveryTableIsKey ==
    IndexesDone =>
        /\ DOMAIN xOut.indexes.m = {TableNameAt(k) : k \in 1..Len(xIn.tables)}
        /\ ~xOut.indexes.isNil
        /\ \A k \in 1..Len(xIn.tables) :
              xIn.res[k].rows = <<>> => xOut.indexes.m[TableNameAt(k)] = EmptyMap

\* C8 witness: of two tables one has index rows and the other has none.
C8_Witness ==
    /\ IndexesDone
    /\ Len(xIn.tables) = 2
    /\ xIn.res[1].rows = <<>>
    /\ Len(xIn.res[2].rows) = 2
    /\ TableNameAt(1) \in DOMAIN xOut.indexes.m

(***************************************************************************)
(* Spec: threads calling ReloadSchemas, getRandTable, getIndexes,          *)
(* getRandTableIndex and getRandIndex on one Smither.                      *)
(*                                                                         *)
(* s.lock is a sync.RWMutex: Lock() first announces the writer, which      *)
(* blocks every later RLock(), then waits for the readers to leave.        *)
(***************************************************************************)
\* What information_schema.columns can list, in ORDER BY order; a query
\* returns at most MaxDbRows of these rows.
DbColumnListing ==
    <<ColumnRow(<<"d", "public", "t1">>, "a", FALSE),
      ColumnRow(<<"d", "public", "t2">>, "a", FALSE),
      ColumnRow(<<"d", "public", "t2">>, "b", TRUE)>>

\* What SHOW INDEXES can list for a table; a query returns any of these rows.
DbIndexListing ==
    <<[idx |-> "i1", col |-> "a", storing |-> FALSE, ascending |-> TRUE],
      [idx |-> "i2", col |-> "a", storing |-> TRUE, ascending |-> FALSE]>>

SubSeqs(listing, n) ==
    {SelectSeq(listing, LAMBDA r : r \in S) :
        S \in {T \in SUBSET Range(listing) : Cardinality(T) <= n}}

\* A failed db.Query delivers no row.
QueryResults(rowSeqs) ==
    {[fail |-> f, rows |-> rs] : f \in FailModes \ {"query"}, rs \in rowSeqs}
    \cup {[fail |-> "query", rows |-> <<>>]}

\* The rows the two queries can deliver from the database d.
DbColumns(d) == SelectSeq(DbColumnListing, LAMBDA r : r.name \in d.tables)
DbIndexes(d) == SelectSeq(DbIndexListing, LAMBDA r : r.idx \in d.indexes)

Databases == {WholeDb, SmallDb}
DbColumnResultsOf ==
    [d \in Databases |-> QueryResults(SubSeqs(DbColumns(d), MaxDbRows))]
DbIndexResultsOf ==
    [d \in Databases |-> QueryResults(SubSeqs(DbIndexes(d), Len(DbIndexes(d))))]

\* What the column query and an index query can return on s.db.
DbColumnResults == DbColumnResultsOf[db]
DbIndexResults == DbIndexResultsOf[db]

\* The results of the index queries extractIndexes issues for n tables, each
\* query returning one of results: it stops at the first query that fails.
RECURSIVE IndexResultSeqs(_, _)
IndexResultSeqs(results, n) ==
    IF n = 0 THEN {<<>>}
    ELSE {<<q>> : q \in {x \in results : x.fail # "ok"}}
         \cup {<<q>> \o rest : q \in {x \in results : x.fail = "ok"},
                               rest \in IndexResultSeqs(results, n - 1)}

\* MaxDbRows rows of the column query make at most MaxDbRows tables.
DbIndexResultSeqsOf ==
    [d \in Databases |->
        [n \in 0..MaxDbRows |-> IndexResultSeqs(DbIndexResultsOf[d], n)]]

DbIndexResultSeqs(n) == DbIndexResultSeqsOf[db][n]

\* The table names callers pass to getIndexes and getRandTableIndex.
ArgTables == {NewTableName("d", "t1"), NewTableName("d", "t2")}

\* The positions at which a thread is inside s.rnd.Intn.
DrawLabels == {"rt_draw", "ti_draw"}

\* The state s.rnd is left in by the draw of thread t: the next state of the
\* source; any state when another thread is inside s.rnd.Intn as well, for
\* *rand.Rand is not safe for concurrent use.
RndAfterDraw(t) ==
    IF \E u \in Threads \ {t} : pc[u] \in DrawLabels
    THEN 0..(RndPeriod - 1)
    ELSE {(rnd + 1) % RndPeriod}

Intn_zero(n) == {0}
\* s.rnd.Intn(n): some number of [0, n).
Intn(n) == 0..(n - 1)

\* names: the keys of the map in the order the range loop meets them.
KeyOrders(m) ==
    {f \in [1..Cardinality(DOMAIN m) -> DOMAIN m] : Range(f) = DOMAIN m}

TableIndexResult_notFound(tn, idx) == NoRet
\* return &tree.TableIndexName{Table: table, Index: idx.Name}, idx, true
TableIndexResult(tn, idx) ==
    [ok |-> TRUE, name |-> [Table |-> tn, Index |-> idx.Name], index |-> idx]

\* s.lock.RLock() succeeds: no writer has announced itself.
CanRLock == lockW = 0

Goto(t, l) == pc' = [pc EXCEPT ![t] = l]

\* ---- calls ----
CallReloadSchemas(t) ==
    /\ pc[t] = "idle"
    /\ op' = [op EXCEPT ![t] = "ReloadSchemas"]
    /\ Goto(t, "rs_check")
    /\ UNCHANGED groupVars /\ UNCHANGED indexVars /\ UNCHANGED catalogVars
    /\ UNCHANGED <<hasDB, db, tables, indexes, lockW, lockR, pre, arg, tref, idxs, ret, err, rnd>>

CallGetRandTable(t) ==
    /\ pc[t] = "idle"
    /\ op' = [op EXCEPT ![t] = "getRandTable"]
    /\ Goto(t, "rt_rlock")
    /\ UNCHANGED groupVars /\ UNCHANGED indexVars /\ UNCHANGED catalogVars
    /\ UNCHANGED <<hasDB, db, tables, indexes, lockW, lockR, pre, arg, tref, idxs, ret, err, rnd>>

CallGetIndexes(t) ==
    /\ pc[t] = "idle"
    /\ op' = [op EXCEPT ![t] = "getIndexes"]
    /\ \E tn \in ArgTables : arg' = [arg EXCEPT ![t] = tn]
    /\ Goto(t, "gi_rlock")
    /\ UNCHANGED groupVars /\ UNCHANGED indexVars /\ UNCHANGED catalogVars
    /\ UNCHANGED <<hasDB, db, tables, indexes, lockW, lockR, pre, tref, idxs, ret, err, rnd>>

CallGetRandTableIndex(t) ==
    /\ pc[t] = "idle"
    /\ op' = [op EXCEPT ![t] = "getRandTableIndex"]
    /\ \E tn \in ArgTables : arg' = [arg EXCEPT ![t] = tn]
    /\ Goto(t, "gi_rlock")
    /\ UNCHANGED groupVars /\ UNCHANGED indexVars /\ UNCHANGED catalogVars
    /\ UNCHANGED <<hasDB, db, tables, indexes, lockW, lockR, pre, tref, idxs, ret, err, rnd>>

CallGetRandIndex(t) ==
    /\ pc[t] = "idle"
    /\ op' = [op EXCEPT ![t] = "getRandIndex"]
    /\ Goto(t, "rt_rlock")
    /\ UNCHANGED groupVars /\ UNCHANGED indexVars /\ UNCHANGED catalogVars
    /\ UNCHANGED <<hasDB, db, tables, indexes, lockW, lockR, pre, arg, tref, idxs, ret, err, rnd>>

\* The method returns: its frame is gone.
Return(t) ==
    /\ pc[t] = "return"
    /\ op' = [op EXCEPT ![t] = "idle"]
    /\ Goto(t, "idle")
    /\ arg' = [arg EXCEPT ![t] = NoTable]
    /\ tref' = [tref EXCEPT ![t] = NoTref]
    /\ idxs' = [idxs EXCEPT ![t] = IndexesNil]
    /\ ret' = [ret EXCEPT ![t] = NoRet]
    /\ err' = [err EXCEPT ![t] = FALSE]
    /\ UNCHANGED groupVars /\ UNCHANGED indexVars /\ UNCHANGED catalogVars
    /\ UNCHANGED <<hasDB, db, tables, indexes, lockW, lockR, pre, rnd>>

\* ---- ReloadSchemas ----
RS_Check_noTest(t) ==
    /\ pc[t] = "rs_check"
    /\ Goto(t, "rs_lock")
    /\ UNCHANGED groupVars /\ UNCHANGED indexVars /\ UNCHANGED catalogVars
    /\ UNCHANGED <<hasDB, db, tables, indexes, lockW, lockR, pre, op, arg, tref, idxs, ret, err, rnd>>
\* if s.db == nil { return nil }
RS_Check(t) ==
    /\ pc[t] = "rs_check"
    /\ Goto(t, IF hasDB THEN "rs_lock" ELSE "return")
    /\ UNCHANGED groupVars /\ UNCHANGED indexVars /\ UNCHANGED catalogVars
    /\ UNCHANGED <<hasDB, db, tables, indexes, lockW, lockR, pre, op, arg, tref, idxs, ret, err, rnd>>

RS_Lock_noWait(t) ==
    /\ pc[t] = "rs_lock"
    /\ lockW' = t
    /\ Goto(t, "rs_drain")
    /\ UNCHANGED groupVars /\ UNCHANGED indexVars /\ UNCHANGED catalogVars
    /\ UNCHANGED <<hasDB, db, tables, indexes, lockR, pre, op, arg, tref, idxs, ret, err, rnd>>
\* s.lock.Lock(): the writer announces itself.
RS_Lock(t) ==
    /\ pc[t] = "rs_lock"
    /\ lockW = 0
    /\ lockW' = t
    /\ Goto(t, "rs_drain")
    /\ UNCHANGED groupVars /\ UNCHANGED indexVars /\ UNCHANGED catalogVars
    /\ UNCHANGED <<hasDB, db, tables, indexes, lockR, pre, op, arg, tref, idxs, ret, err, rnd>>

\* s.lock.Lock(): the readers have left, the writer holds the lock.
RS_Drain(t) ==
    /\ pc[t] = "rs_drain"
    /\ lockR = {}
    /\ pre' = [tables |-> tables, indexes |-> indexes]
    /\ Goto(t, "rs_tables")
    /\ UNCHANGED groupVars /\ UNCHANGED indexVars /\ UNCHANGED catalogVars
    /\ UNCHANGED <<hasDB, db, tables, indexes, lockW, lockR, op, arg, tref, idxs, ret, err, rnd>>

RS_Tables_unlocks(t) ==
    /\ pc[t] = "rs_tables"
    /\ \E q \in DbColumnResults :
          LET out == extractTables(q)
          IN /\ tables' = out.tables
             /\ err' = [err EXCEPT ![t] = out.err]
             /\ Goto(t, IF out.err THEN "rs_unlock" ELSE "rs_indexes")
    /\ lockW' = 0
    /\ UNCHANGED groupVars /\ UNCHANGED indexVars /\ UNCHANGED catalogVars
    /\ UNCHANGED <<hasDB, db, indexes, lockR, pre, op, arg, tref, idxs, ret, rnd>>
\* s.tables, err = extractTables(s.db); if err != nil { return err }
RS_Tables(t) ==
    /\ pc[t] = "rs_tables"
    /\ \E q \in DbColumnResults :
          LET out == extractTables(q)
          IN /\ tables' = out.tables
             /\ err' = [err EXCEPT ![t] = out.err]
             /\ Goto(t, IF out.err THEN "rs_unlock" ELSE "rs_indexes")
    /\ UNCHANGED groupVars /\ UNCHANGED indexVars /\ UNCHANGED catalogVars
    /\ UNCHANGED <<hasDB, db, indexes, lockW, lockR, pre, op, arg, tref, idxs, ret, rnd>>

\* s.indexes, err = extractIndexes(s.db, s.tables); return err
RS_Indexes(t) ==
    /\ pc[t] = "rs_indexes"
    /\ \E res \in DbIndexResultSeqs(Len(tables)) :
          LET out == extractIndexes(tables, res)
          IN /\ indexes' = out.indexes
             /\ err' = [err EXCEPT ![t] = out.err]
    /\ Goto(t, "rs_unlock")
    /\ UNCHANGED groupVars /\ UNCHANGED indexVars /\ UNCHANGED catalogVars
    /\ UNCHANGED <<hasDB, db, tables, lockW, lockR, pre, op, arg, tref, idxs, ret, rnd>>

\* defer s.lock.Unlock()
RS_Unlock(t) ==
    /\ pc[t] = "rs_unlock"
    /\ lockW' = 0
    /\ pre' = Nil
    /\ Goto(t, "return")
    /\ UNCHANGED groupVars /\ UNCHANGED indexVars /\ UNCHANGED catalogVars
    /\ UNCHANGED <<hasDB, db, tables, indexes, lockR, op, arg, tref, idxs, ret, err, rnd>>

\* ---- getRandTable ----
\* s.lock.RLock()
RT_RLock(t) ==
    /\ pc[t] = "rt_rlock"
    /\ CanRLock
    /\ lockR' = lockR \cup {t}
    /\ Goto(t, "rt_len")
    /\ UNCHANGED groupVars /\ UNCHANGED indexVars /\ UNCHANGED catalogVars
    /\ UNCHANGED <<hasDB, db, tables, indexes, lockW, pre, op, arg, tref, idxs, ret, err, rnd>>

\* if len(s.tables) == 0 { return nil, false }
RT_Len(t) ==
    /\ pc[t] = "rt_len"
    /\ Goto(t, IF Len(tables) = 0 THEN "rt_runlock" ELSE "rt_draw")
    /\ tref' = [tref EXCEPT ![t] = NoTref]
    /\ UNCHANGED groupVars /\ UNCHANGED indexVars /\ UNCHANGED catalogVars
    /\ UNCHANGED <<hasDB, db, tables, indexes, lockW, lockR, pre, op, arg, idxs, ret, err, rnd>>

\* return s.tables[i], true for the i that s.rnd.Intn(len(s.tables)) gives
RT_DrawPick(t, i) ==
    /\ pc[t] = "rt_draw"
    /\ i \in Intn(Len(tables))
    /\ tref' = [tref EXCEPT ![t] = [ok |-> TRUE, table |-> tables[i + 1]]]
    /\ rnd' \in RndAfterDraw(t)
    /\ Goto(t, "rt_runlock")
    /\ UNCHANGED groupVars /\ UNCHANGED indexVars /\ UNCHANGED catalogVars
    /\ UNCHANGED <<hasDB, db, tables, indexes, lockW, lockR, pre, op, arg, idxs, ret, err>>

\* return s.tables[s.rnd.Intn(len(s.tables))], true
RT_Draw(t) == \E i \in 0..(Len(tables) - 1) : RT_DrawPick(t, i)

RT_RUnlock_late(t) ==
    /\ pc[t] = "rt_runlock"
    /\ lockR' = IF op[t] = "getRandTable" \/ ~tref[t].ok THEN lockR \ {t} ELSE lockR
    /\ IF op[t] = "getRandTable" \/ ~tref[t].ok
       THEN /\ Goto(t, "return")
            /\ arg' = arg
       ELSE /\ Goto(t, "gi_rlock")
            /\ arg' = [arg EXCEPT ![t] = tref[t].table.TableName]
    /\ UNCHANGED groupVars /\ UNCHANGED indexVars /\ UNCHANGED catalogVars
    /\ UNCHANGED <<hasDB, db, tables, indexes, lockW, pre, op, tref, idxs, ret, err, rnd>>
\* defer s.lock.RUnlock(); in getRandIndex: if !ok { return nil, nil, false },
\* else getRandTableIndex(*tableRef.TableName) begins.
RT_RUnlock(t) ==
    /\ pc[t] = "rt_runlock"
    /\ lockR' = lockR \ {t}
    /\ IF op[t] = "getRandTable" \/ ~tref[t].ok
       THEN /\ Goto(t, "return")
            /\ arg' = arg
       ELSE /\ Goto(t, "gi_rlock")
            /\ arg' = [arg EXCEPT ![t] = tref[t].table.TableName]
    /\ UNCHANGED groupVars /\ UNCHANGED indexVars /\ UNCHANGED catalogVars
    /\ UNCHANGED <<hasDB, db, tables, indexes, lockW, pre, op, tref, idxs, ret, err, rnd>>

\* ---- getIndexes ----
\* s.lock.RLock()
GI_RLock(t) ==
    /\ pc[t] = "gi_rlock"
    /\ CanRLock
    /\ lockR' = lockR \cup {t}
    /\ Goto(t, "gi_read")
    /\ UNCHANGED groupVars /\ UNCHANGED indexVars /\ UNCHANGED catalogVars
    /\ UNCHANGED <<hasDB, db, tables, indexes, lockW, pre, op, arg, tref, idxs, ret, err, rnd>>

\* return s.indexes[table]: the nil map when the table is no key
GI_Read(t) ==
    /\ pc[t] = "gi_read"
    /\ idxs' = [idxs EXCEPT ![t] =
                   IF arg[t] \in DOMAIN indexes.m
                   THEN [isNil |-> FALSE, m |-> indexes.m[arg[t]]]
                   ELSE IndexesNil]
    /\ Goto(t, "gi_runlock")
    /\ UNCHANGED groupVars /\ UNCHANGED indexVars /\ UNCHANGED catalogVars
    /\ UNCHANGED <<hasDB, db, tables, indexes, lockW, lockR, pre, op, arg, tref, ret, err, rnd>>

\* defer s.lock.RUnlock()
GI_RUnlock(t) ==
    /\ pc[t] = "gi_runlock"
    /\ lockR' = lockR \ {t}
    /\ Goto(t, IF op[t] = "getIndexes" THEN "return" ELSE "ti_len")
    /\ UNCHANGED groupVars /\ UNCHANGED indexVars /\ UNCHANGED catalogVars
    /\ UNCHANGED <<hasDB, db, tables, indexes, lockW, pre, op, arg, tref, idxs, ret, err, rnd>>

\* ---- getRandTableIndex ----
\* if len(indexes) == 0 { return nil, nil, false }
TI_Len(t) ==
    /\ pc[t] = "ti_len"
    /\ Goto(t, IF DOMAIN idxs[t].m = {} THEN "return" ELSE "ti_draw")
    /\ ret' = [ret EXCEPT ![t] = NoRet]
    /\ UNCHANGED groupVars /\ UNCHANGED indexVars /\ UNCHANGED catalogVars
    /\ UNCHANGED <<hasDB, db, tables, indexes, lockW, lockR, pre, op, arg, tref, idxs, err, rnd>>

\* names := the keys; idx := indexes[names[s.rnd.Intn(len(names))]]; return
TI_Draw(t) ==
    /\ pc[t] = "ti_draw"
    /\ \E names \in KeyOrders(idxs[t].m) :
          \E i \in Intn(Len(names)) :
              ret' = [ret EXCEPT ![t] =
                         TableIndexResult(arg[t], idxs[t].m[names[i + 1]])]
    /\ rnd' \in RndAfterDraw(t)
    /\ Goto(t, "return")
    /\ UNCHANGED groupVars /\ UNCHANGED indexVars /\ UNCHANGED catalogVars
    /\ UNCHANGED <<hasDB, db, tables, indexes, lockW, lockR, pre, op, arg, tref, idxs, err>>

Next ==
    \E t \in Threads :
        \/ CallReloadSchemas(t)
        \/ CallGetRandTable(t)
        \/ CallGetIndexes(t)
        \/ CallGetRandTableIndex(t)
        \/ CallGetRandIndex(t)
        \/ Return(t)
        \/ RS_Check(t)
        \/ RS_Lock(t)
        \/ RS_Drain(t)
        \/ RS_Tables(t)
        \/ RS_Indexes(t)
        \/ RS_Unlock(t)
        \/ RT_RLock(t)
        \/ RT_Len(t)
        \/ RT_Draw(t)
        \/ RT_RUnlock(t)
        \/ GI_RLock(t)
        \/ GI_Read(t)
        \/ GI_RUnlock(t)
        \/ TI_Len(t)
        \/ TI_Draw(t)

Init == CacheInit /\ GroupOff /\ IndexOff /\ CatalogOff

Spec == Init /\ [][Next]_vars

(***************************************************************************)
(* Claims about the schema cache (Spec)                                    *)
(***************************************************************************)
\* Thread t holds the exclusive lock and runs the body of ReloadSchemas.
Refreshing(t) == pc[t] \in {"rs_tables", "rs_indexes", "rs_unlock"}

\* C1 as claimed: when ReloadSchemas is about to return an error, s.tables and
\* s.indexes are what they were when it took the lock.
C1_Original ==
    \A t \in Threads :
        (pc[t] = "rs_unlock" /\ err[t]) =>
            /\ tables = pre.tables
            /\ indexes = pre.indexes

\* Thread r is inside a reader: it has taken the shared lock of its first
\* getRandTable/getIndexes and has not reached its return.
InsideReader(r) ==
    \/ pc[r] \in {"rt_len", "rt_draw", "rt_runlock", "gi_read", "gi_runlock",
                  "ti_len", "ti_draw"}
    \/ pc[r] = "gi_rlock" /\ op[r] = "getRandIndex"

\* C2 as claimed: no ReloadSchemas with a connection runs between the call and
\* the return of a reader, getRandTableIndex and getRandIndex included.
C2_Original ==
    \A r, w \in Threads : ~(InsideReader(r) /\ Refreshing(w))

\* C3 as claimed: every draw from s.rnd is made with the lock held.
C3_Original ==
    \A t \in Threads : pc[t] \in {"rt_draw", "ti_draw"} => t \in lockR

\* C9: getRandTable reports no table exactly when s.tables is empty; otherwise
\* what it returns is an element of s.tables as it is while the shared lock is
\* held, and before the draw every element of s.tables can be the one returned.
C9_PickRandomTable ==
    \A t \in Threads :
        /\ pc[t] = "rt_runlock" =>
              /\ t \in lockR
              /\ tref[t].ok <=> tables # <<>>
              /\ tref[t].ok => \E i \in 1..Len(tables) : tref[t].table = tables[i]
        /\ pc[t] = "rt_draw" =>
              /\ tables # <<>>
              /\ \A i \in 1..Len(tables) : ENABLED RT_DrawPick(t, i - 1)

\* C9 witness: getRandTable has drawn the second of two tables.
C9_Witness ==
    \E t \in Threads :
        /\ pc[t] = "rt_runlock" /\ op[t] = "getRandTable"
        /\ Len(tables) = 2
        /\ tref[t].ok /\ tref[t].table = tables[2]

\* getRandIndex returns in thread t.
RandIndexReturns(t) == pc[t] = "return" /\ op[t] = "getRandIndex"
\* getRandTable found s.tables empty.
NoTables(t) == ~tref[t].ok
\* getRandTable gave a table and getIndexes gave no index for it.
NoIndexes(t) == tref[t].ok /\ DOMAIN idxs[t].m = {}
\* The table chosen is a key of the index catalog and has no index.
ChoseTableWithoutIndex(t) == NoIndexes(t) /\ ~idxs[t].isNil

\* C10 as claimed: what getRandIndex returns when there is no table differs
\* from what it returns when the chosen table has no index.
C10_Original ==
    \A a, b \in Threads :
        (/\ RandIndexReturns(a) /\ NoTables(a)
         /\ RandIndexReturns(b) /\ ChoseTableWithoutIndex(b))
            => ret[a] # ret[b]

\* C10 amended: getRandIndex returns found = false exactly when s.tables was
\* empty or the chosen table had no index, with the same value
\* (nil, nil, false) in both cases; otherwise it returns an index of the
\* chosen table under that table's name.
C10_RandIndexOutcome ==
    \A t \in Threads :
        RandIndexReturns(t) =>
            /\ ret[t].ok <=> ~(NoTables(t) \/ NoIndexes(t))
            /\ ~ret[t].ok => ret[t] = NoRet
            /\ ret[t].ok =>
                  /\ ret[t].index \in Range(idxs[t].m)
                  /\ ret[t].name = [Table |-> tref[t].table.TableName,
                                    Index |-> ret[t].index.Name]

\* C10 witness: getRandIndex returns in two threads, in one for want of a
\* table and in the other for want of an index on the table it chose.
C10_Witness ==
    \E a, b \in Threads :
        /\ RandIndexReturns(a) /\ NoTables(a)
        /\ RandIndexReturns(b) /\ ChoseTableWithoutIndex(b)
        /\ ~ret[a].ok /\ ~ret[b].ok

\* ReloadSchemas of thread t takes the step that tests s.db and finds nil.
NilDbStep(t) == pc[t] = "rs_check" /\ ~hasDB /\ pc'[t] # pc[t]

\* What the step of a thread leaves alone when it only returns nil.
NothingTouched ==
    /\ tables' = tables
    /\ indexes' = indexes
    /\ rnd' = rnd
    /\ lockW' = lockW
    /\ lockR' = lockR

\* C11: ReloadSchemas on a Smither without a connection returns nil in one
\* step that changes neither s.tables nor s.indexes nor s.rnd, takes no lock
\* and reaches no query; the step can be taken whoever holds the lock.
C11_NilDbNoOp ==
    /\ [](\A t \in Threads :
            /\ (pc[t] = "rs_check" /\ ~hasDB) => ENABLED RS_Check(t)
            /\ (op[t] = "ReloadSchemas" /\ ~hasDB) =>
                  /\ pc[t] \in {"rs_check", "return"}
                  /\ ~err[t])
    /\ [][\A t \in Threads :
            NilDbStep(t) => (pc'[t] = "return" /\ ~err'[t] /\ NothingTouched)]_vars

\* ReloadSchemas has returned nil on a Smither without a connection while the
\* other thread holds the lock.
C11_Witness ==
    \E t \in Threads :
        /\ ~hasDB /\ op[t] = "ReloadSchemas" /\ pc[t] = "return" /\ ~err[t]
        /\ lockR \ {t} # {}

\* The names of the tables of s.tables.
TableNames == {tables[i].TableName : i \in 1..Len(tables)}

\* What a ReloadSchemas without error can leave on the database d: the tables
\* extractTables returns for a result of the column query, with the indexes
\* extractIndexes returns for these tables and results of their index queries.
TablesOutcomes(d) ==
    {extractTables(q).tables :
        q \in {x \in DbColumnResultsOf[d] : ~extractTables(x).err}}
IndexesOutcomes(d, tbls) ==
    {extractIndexes(tbls, res).indexes :
        res \in {r \in DbIndexResultSeqsOf[d][Len(tbls)] :
                    ~extractIndexes(tbls, r).err}}
ReloadOutcomesOf ==
    [d \in Databases |->
        UNION {{[tables |-> tbls, indexes |-> ix] : ix \in IndexesOutcomes(d, tbls)} :
                  tbls \in TablesOutcomes(d)}]

\* s.tables and s.indexes are together what one ReloadSchemas without error
\* leaves, and the keys of s.indexes are the names of the tables of s.tables.
BothFromOneRun ==
    /\ [tables |-> tables, indexes |-> indexes] \in ReloadOutcomesOf[db]
    /\ ~indexes.isNil
    /\ DOMAIN indexes.m = TableNames

\* A thread has the shared lock: it is where the readers look at the cache.
Reading(r) == r \in lockR

\* C12: when ReloadSchemas is about to return nil, s.tables is the output of
\* extractTables and s.indexes the output of extractIndexes for exactly these
\* tables; and while a reader holds the lock no ReloadSchemas is between
\* taking the lock and releasing it, so none is between its two assignments.
C12_BothReplaced ==
    /\ \A t \in Threads :
          (pc[t] = "rs_unlock" /\ ~err[t]) => BothFromOneRun
    /\ \A r \in Threads : Reading(r) => \A t \in Threads : ~Refreshing(t)

\* A ReloadSchemas that found a cache with tables is about to return nil with
\* another list of tables, while the other thread waits for the shared lock.
C12_Witness ==
    \E t \in Threads :
        /\ pc[t] = "rs_unlock" /\ ~err[t]
        /\ Len(pre.tables) > 0
        /\ Len(tables) > 0 /\ tables # pre.tables
        /\ \E r \in Threads \ {t} : pc[r] \in {"rt_rlock", "gi_rlock"}

\* Thread t alone is in the body of ReloadSchemas, with the lock to itself.
AloneInBody(t) ==
    /\ lockW = t
    /\ lockR = {}
    /\ \A u \in Threads \ {t} : ~Refreshing(u)

\* The step changes s.tables or s.indexes.
CacheWritten == tables' # tables \/ indexes' # indexes

\* C16: a ReloadSchemas with a connection is in its body (column query to
\* last assignment) only with the exclusive lock and alone; every change of
\* s.tables and s.indexes is a step of the one thread in the body; and when
\* it is about to return nil, s.tables and s.indexes are both its own.
C16_Serialized ==
    /\ [](\A t \in Threads :
            /\ Refreshing(t) => AloneInBody(t)
            /\ (pc[t] = "rs_unlock" /\ ~err[t]) => BothFromOneRun)
    /\ [][CacheWritten =>
            \E t \in Threads : Refreshing(t) /\ lockW = t /\ pc'[t] # pc[t]]_vars

\* Two ReloadSchemas at once: one is about to return nil after it replaced
\* the tables an earlier run had left, the other waits for the lock.
C16_Witness ==
    \E t \in Threads, u \in Threads :
        /\ t # u
        /\ pc[t] = "rs_unlock" /\ ~err[t]
        /\ Len(pre.tables) > 0 /\ Len(tables) > 0 /\ tables # pre.tables
        /\ pc[u] = "rs_lock"

\* No ReloadSchemas is in its body: the readers can look at the cache.
ReaderObservable == \A t \in Threads : ~Refreshing(t)

\* C17 as claimed: whenever the readers can look at the cache, every key of
\* s.indexes is the name of a table of s.tables.
C17_Original == ReaderObservable => DOMAIN indexes.m \subseteq TableNames

\* C18 as claimed: at most one thread at a time is inside s.rnd.Intn.
C18_Original == Cardinality({t \in Threads : pc[t] \in DrawLabels}) <= 1

(***************************************************************************)
(* SpecLive: the schema cache with a fair scheduler and a fair lock        *)
(*                                                                         *)
(* A thread that can take a step of its method takes one in the end (the   *)
(* Go scheduler runs every runnable goroutine, and db.Query returns).      *)
(* sync.RWMutex admits a blocked RLock when the writer before it unlocks   *)
(* and sync.Mutex hands the lock to a waiter that has starved, so a thread *)
(* that finds the lock free again and again gets it: strong fairness for   *)
(* the three acquiring steps.  Nothing obliges a thread to call a method.  *)
(***************************************************************************)
\* The steps of thread t inside a method, the lock acquisitions apart.
Running(t) ==
    \/ Return(t)
    \/ RS_Check(t)
    \/ RS_Drain(t)
    \/ RS_Tables(t)
    \/ RS_Indexes(t)
    \/ RS_Unlock(t)
    \/ RT_Len(t)
    \/ RT_Draw(t)
    \/ RT_RUnlock(t)
    \/ GI_Read(t)
    \/ GI_RUnlock(t)
    \/ TI_Len(t)
    \/ TI_Draw(t)

Fairness ==
    \A t \in Threads :
        /\ WF_vars(Running(t))
        /\ SF_vars(RS_Lock(t))
        /\ SF_vars(RT_RLock(t))
        /\ SF_vars(GI_RLock(t))

InitLive ==
    CacheStart(BOOLEAN) /\ db = SmallDb /\ GroupOff /\ IndexOff /\ CatalogOff

SpecLive == InitLive /\ [][Next]_vars /\ Fairness

\* Thread t holds s.lock, shared or exclusive (announced or acquired).
Holds(t) == t \in lockR \/ lockW = t

\* Thread t is at a call of s.lock.RLock() or s.lock.Lock().
Acquiring(t) == pc[t] \in {"rs_lock", "rt_rlock", "gi_rlock"}

\* Thread t is inside a method and no step of it is enabled.
Blocked(t) == pc[t] # "idle" /\ ~ENABLED (Running(t) \/ RS_Lock(t) \/ RT_RLock(t) \/ GI_RLock(t))

\* C19: no thread calls RLock or Lock while it holds the lock; the threads
\* inside a method are never all blocked; and every call returns.
C19_NoDeadlock ==
    /\ [](\A t \in Threads : Acquiring(t) => ~Holds(t))
    /\ []((\E t \in Threads : pc[t] # "idle") => \E t \in Threads : ~Blocked(t))
    /\ \A t \in Threads : (pc[t] # "idle") ~> (pc[t] = "idle")

\* getRandIndex has released the shared lock of getRandTable and waits in
\* getIndexes behind a ReloadSchemas that has announced itself.
C19_Witness ==
    \E t \in Threads, u \in Threads :
        /\ op[t] = "getRandIndex" /\ pc[t] = "gi_rlock" /\ ~Holds(t)
        /\ lockW = u /\ Blocked(t)

(***************************************************************************)
(* The catalogs `functions` and `operators`                                *)
(*                                                                         *)
(* A Go string is a sequence of pieces; the pieces are chosen so that the  *)
(* texts the code looks for are whole pieces.                              *)
(***************************************************************************)
\* strings.Contains(s, sub)
Contains(s, sub) ==
    \E i \in 1..(Len(s) - Len(sub) + 1) : SubSeq(s, i, i + Len(sub) - 1) = sub

\* How often x occurs in the slice q.
Occurrences(q, x) == Cardinality({i \in DOMAIN q : q[i] = x})

\* The orders in which a range loop can visit a map of n entries.
Orders(n) == {p \in [1..n -> 1..n] : Range(p) = 1..n}
Reordered(q, p) == [i \in 1..Len(q) |-> q[p[i]]]

\* Types: the semantic type and the oid of Oid().
Int8 == [SemanticType |-> "INT", Oid |-> 20]
String == [SemanticType |-> "STRING", Oid |-> 25]
IntArray == [SemanticType |-> "ARRAY", Oid |-> 1016]
Types == {Int8, String, IntArray}
Oids == {typ.Oid : typ \in Types}

\* types.AnyNonArray
AnyNonArray ==
    <<[SemanticType |-> "BOOL", Oid |-> 16], Int8, String>>

\* ---- functions ----
PgSleep == <<"pg_sleep">>
ForceMarker == <<"crdb_internal.force_">>
NotUsable == <<"Not usable">>

\* The overloads a definition of tree.FunDefs can have.
Overloads ==
    {[Info |-> <<"Calculates.">>, ReturnType |-> Int8],
     [Info |-> <<"Calculates.">>, ReturnType |-> String],
     [Info |-> <<"Calculates. ", "Not usable", "; internal.">>, ReturnType |-> Int8],
     [Info |-> <<"Calculates.">>, ReturnType |-> IntArray]}

FunctionDef(name, class, category, private) ==
    [Name |-> name, Class |-> class, Category |-> category,
     Private |-> private, Definition |-> <<>>]

\* The definitions tree.FunDefs can hold, without their overloads.
FunctionDefs ==
    {FunctionDef(<<"length">>, "Normal", "String", FALSE),
     FunctionDef(<<"sum">>, "Aggregate", "Math", FALSE),
     FunctionDef(<<"pg_sleep">>, "Normal", "System", FALSE),
     FunctionDef(<<"pg_sleep", "_for">>, "Normal", "System", FALSE),
     FunctionDef(<<"crdb_internal.force_", "error">>, "Normal", "System", FALSE),
     FunctionDef(<<"pg_get_keywords">>, "Generator", "Compatibility", FALSE),
     FunctionDef(<<"final_variance">>, "Aggregate", "Math", TRUE)}

Classes == {d.Class : d \in FunctionDefs}

\* ov.FixedReturnType()
FixedReturnType(ov) == ov.ReturnType

found_always(typ) == TRUE
\* for _, nonArrayTyp := range types.AnyNonArray { if typ.SemanticType ==
\* nonArrayTyp.SemanticType { found = true } }
found(typ) ==
    \E i \in 1..Len(AnyNonArray) : typ.SemanticType = AnyNonArray[i].SemanticType

\* function{def: def, overload: ov}
function(def, ov) == [def |-> def.Name, overload |-> ov]

\* m[def.Class][typ.Oid()] = append(m[def.Class][typ.Oid()], function{...})
AppendFunction(m, def, ov) ==
    LET typ == FixedReturnType(ov)
        inner == m[def.Class]
        old == IF typ.Oid \in DOMAIN inner THEN inner[typ.Oid] ELSE <<>>
    IN Put(m, def.Class, Put(inner, typ.Oid, Append(old, function(def, ov))))

\* for _, ov := range def.Definition { ... }, from the j-th overload on
RECURSIVE OverloadLoop(_, _, _)
OverloadLoop(m, def, j) ==
    IF j > Len(def.Definition) THEN m
    ELSE LET ov == def.Definition[j]
         IN IF Contains(ov.Info, NotUsable) THEN OverloadLoop(m, def, j + 1)
            ELSE IF ~found(FixedReturnType(ov)) THEN OverloadLoop(m, def, j + 1)
            ELSE OverloadLoop(AppendFunction(m, def, ov), def, j + 1)

EnsureClass_reset(m, class) == Put(m, class, EmptyMap)
\* if _, ok := m[def.Class]; !ok { m[def.Class] = map[oid.Oid][]function{} }
EnsureClass(m, class) ==
    IF class \in DOMAIN m THEN m ELSE Put(m, class, EmptyMap)

\* One pass of the loop over tree.FunDefs.
FunctionsStep(m, def) ==
    IF def.Name = PgSleep THEN m
    ELSE IF Contains(def.Name, ForceMarker) THEN m
    ELSE LET m1 == EnsureClass(m, def.Class)
         IN IF def.Category = "Compatibility" THEN m1
            ELSE IF def.Private THEN m1
            ELSE OverloadLoop(m1, def, 1)

\* The map `functions` for the definitions defs in the order of the loop.
RECURSIVE FunctionsLoop(_, _)
FunctionsLoop(m, defs) ==
    IF defs = <<>> THEN m
    ELSE FunctionsLoop(FunctionsStep(m, Head(defs)), Tail(defs))

functions(defs) == FunctionsLoop(EmptyMap, defs)

(***************************************************************************)
(* SpecFunctions: tree.FunDefs is filled, then `functions` is built        *)
(***************************************************************************)
MaxDefs == 2        \* definitions in tree.FunDefs
MaxOverloads == 2   \* overloads of all definitions together

RECURSIVE TotalOverloads(_)
TotalOverloads(defs) ==
    IF defs = <<>> THEN 0
    ELSE Len(Head(defs).Definition) + TotalOverloads(Tail(defs))

InitFunctions ==
    /\ fIn = <<>>
    /\ fOut = EmptyMap
    /\ fpc = "input"
    /\ OperatorsOff
    /\ CacheOff
    /\ GroupOff
    /\ IndexOff

\* tree.FunDefs gets a definition under a name of its own.
AddFunctionDef ==
    /\ fpc = "input"
    /\ Len(fIn) < MaxDefs
    /\ \E def \in FunctionDefs :
          /\ \A i \in 1..Len(fIn) : fIn[i].Name # def.Name
          /\ fIn' = Append(fIn, def)
    /\ UNCHANGED <<fOut, fpc, oIn, oOut, opc, cacheVars, groupVars, indexVars>>

\* The definition added last gets one more overload.
AddOverload ==
    /\ fpc = "input"
    /\ fIn # <<>>
    /\ TotalOverloads(fIn) < MaxOverloads
    /\ \E ov \in Overloads :
          fIn' = [fIn EXCEPT ![Len(fIn)].Definition = Append(@, ov)]
    /\ UNCHANGED <<fOut, fpc, oIn, oOut, opc, cacheVars, groupVars, indexVars>>

\* var functions = func() ... { ... }()
RunFunctions ==
    /\ fpc = "input"
    /\ fOut' = functions(fIn)
    /\ fpc' = "done"
    /\ UNCHANGED <<fIn, oIn, oOut, opc, cacheVars, groupVars, indexVars>>

NextFunctions == AddFunctionDef \/ AddOverload \/ RunFunctions

SpecFunctions == InitFunctions /\ [][NextFunctions]_vars

(***************************************************************************)
(* Claims about `functions` (SpecFunctions)                                *)
(***************************************************************************)
\* The entries of the catalog m under class and oid.
FunctionsAt(m, class, o) ==
    IF class \in DOMAIN m /\ o \in DOMAIN m[class] THEN m[class][o] ELSE <<>>

\* The conditions of the claim for an overload of a definition.
Eligible(def, ov) ==
    /\ def.Name # <<"pg_sleep">>
    /\ ~Contains(def.Name, <<"crdb_internal.force_">>)
    /\ def.Category # "Compatibility"
    /\ ~def.Private
    /\ ~Contains(ov.Info, <<"Not usable">>)
    /\ ov.ReturnType.SemanticType \in {typ.SemanticType : typ \in Range(AnyNonArray)}

\* How often the catalog is to hold the overload ov of def under class and o.
Expected(def, ov, class, o) ==
    IF Eligible(def, ov) /\ class = def.Class /\ o = ov.ReturnType.Oid
    THEN Occurrences(def.Definition, ov)
    ELSE 0

\* C13: the catalog holds an overload of a definition, once for each time the
\* definition lists it and only under (class of the definition, oid of the
\* return type), iff the definition is not pg_sleep, has no
\* crdb_internal.force_ in its name, is not of category Compatibility, is not
\* private, the overload's Info has no "Not usable" and its return type is of
\* a semantic type of AnyNonArray; the catalog holds nothing else.
C13_FunctionFilter ==
    fpc = "done" =>
        /\ \A i \in 1..Len(fIn), ov \in Overloads, class \in Classes, o \in Oids :
              Occurrences(FunctionsAt(fOut, class, o), function(fIn[i], ov))
                  = Expected(fIn[i], ov, class, o)
        /\ \A class \in DOMAIN fOut : \A o \in DOMAIN fOut[class] :
              \A k \in 1..Len(fOut[class][o]) :
                  \E i \in 1..Len(fIn) :
                      /\ fOut[class][o][k].def = fIn[i].Name
                      /\ fOut[class][o][k].overload \in Range(fIn[i].Definition)

\* The catalog of two definitions: one entry, and an overload of each kind
\* left out for its own reason.
C13_Witness ==
    /\ fpc = "done"
    /\ Len(fIn) = 2
    /\ \E i \in 1..2 : \E j \in 1..Len(fIn[i].Definition) :
          Eligible(fIn[i], fIn[i].Definition[j])
    /\ \E i \in 1..2 : \E j \in 1..Len(fIn[i].Definition) :
          ~Eligible(fIn[i], fIn[i].Definition[j])

\* The (class, oid) keys of a catalog and the number of entries under each.
Keys(m) == {<<class, o>> : class \in DOMAIN m, o \in Oids} \cap
           {k \in Classes \X Oids : k[1] \in DOMAIN m /\ k[2] \in DOMAIN m[k[1]]}
Counts(m) == [k \in Keys(m) |-> Len(m[k[1]][k[2]])]

\* C15: whatever the order in which the loop visits tree.FunDefs, the
\* catalog has the same classes, the same (class, oid) keys and the same
\* number of entries under each key.
C15_OrderIndependent ==
    fpc = "done" =>
        \A p \in Orders(Len(fIn)) :
            LET other == functions(Reordered(fIn, p))
            IN /\ DOMAIN other = DOMAIN fOut
               /\ Counts(other) = Counts(fOut)

\* Two definitions of one class, both with an entry, so that the two orders
\* of the loop differ in what they append first.
C15_Witness ==
    /\ fpc = "done"
    /\ Len(fIn) = 2
    /\ fIn[1].Class = fIn[2].Class
    /\ \A i \in 1..2 : \E j \in 1..Len(fIn[i].Definition) :
          Eligible(fIn[i], fIn[i].Definition[j])

\* The definition is skipped as a whole.
SkippedWhole(def) ==
    \/ def.Name = <<"pg_sleep">>
    \/ Contains(def.Name, <<"crdb_internal.force_">>)
    \/ def.Category = "Compatibility"
    \/ def.Private

\* C20 as claimed: the catalog of definitions that are all skipped as a whole
\* is empty, and every class that is a key of the catalog has an entry under
\* some oid.
C20_Original ==
    fpc = "done" =>
        /\ (\A i \in 1..Len(fIn) : SkippedWhole(fIn[i])) => fOut = EmptyMap
        /\ \A class \in DOMAIN fOut :
              \E o \in DOMAIN fOut[class] : Len(fOut[class][o]) > 0

(***************************************************************************)
(* `operators`                                                             *)
(***************************************************************************)
\* The binary operator symbols and the overloads tree.BinOps can hold.
Symbols == {"Plus", "Minus", "Concat"}

BinOps ==
    {[LeftType |-> Int8, RightType |-> Int8, ReturnType |-> Int8],
     [LeftType |-> String, RightType |-> String, ReturnType |-> String],
     [LeftType |-> Int8, RightType |-> String, ReturnType |-> String],
     [LeftType |-> Int8, RightType |-> IntArray, ReturnType |-> IntArray]}

\* operator{BinOp: bo, Operator: BinaryOperator}
operator(bo, sym) == [BinOp |-> bo, Operator |-> sym]

OperatorKey_left(bo) == bo.LeftType.Oid
\* bo.ReturnType.Oid()
OperatorKey(bo) == bo.ReturnType.Oid

\* m[bo.ReturnType.Oid()] = append(m[bo.ReturnType.Oid()], operator{...})
AppendOperator(m, sym, bo) ==
    LET k == OperatorKey(bo)
        old == IF k \in DOMAIN m THEN m[k] ELSE <<>>
    IN Put(m, k, Append(old, operator(bo, sym)))

\* for _, ov := range overload { ... }
RECURSIVE BinOpLoop(_, _, _)
BinOpLoop(m, sym, overload) ==
    IF overload = <<>> THEN m
    ELSE BinOpLoop(AppendOperator(m, sym, Head(overload)), sym, Tail(overload))

\* for BinaryOperator, overload := range tree.BinOps { ... }, the symbols in
\* the order names
RECURSIVE OperatorsLoop(_, _, _)
OperatorsLoop(m, binOps, names) ==
    IF names = <<>> THEN m
    ELSE OperatorsLoop(BinOpLoop(m, Head(names), binOps[Head(names)]),
                       binOps, Tail(names))

operators(binOps, names) == OperatorsLoop(EmptyMap, binOps, names)

(***************************************************************************)
(* SpecOperators: tree.BinOps is filled, then `operators` is built         *)
(***************************************************************************)
MaxSymbols == 2     \* operator symbols in tree.BinOps
MaxBinOps == 3      \* overloads of all symbols together

TotalBinOps(binOps) ==
    Cardinality({<<sym, j>> \in Symbols \X (1..MaxBinOps) :
                    sym \in DOMAIN binOps /\ j <= Len(binOps[sym])})

InitOperators ==
    /\ oIn = EmptyMap
    /\ oOut = EmptyMap
    /\ opc = "input"
    /\ FunctionsOff
    /\ CacheOff
    /\ GroupOff
    /\ IndexOff

\* tree.BinOps gets a symbol.
AddOperator ==
    /\ opc = "input"
    /\ Cardinality(DOMAIN oIn) < MaxSymbols
    /\ \E sym \in Symbols \ DOMAIN oIn : oIn' = Put(oIn, sym, <<>>)
    /\ UNCHANGED <<oOut, opc, fIn, fOut, fpc, cacheVars, groupVars, indexVars>>

\* A symbol of tree.BinOps gets one more overload.
AddBinOp ==
    /\ opc = "input"
    /\ TotalBinOps(oIn) < MaxBinOps
    /\ \E sym \in DOMAIN oIn, bo \in BinOps :
          oIn' = [oIn EXCEPT ![sym] = Append(@, bo)]
    /\ UNCHANGED <<oOut, opc, fIn, fOut, fpc, cacheVars, groupVars, indexVars>>

\* var operators = func() ... { ... }()
RunOperators ==
    /\ opc = "input"
    /\ \E names \in KeyOrders(oIn) : oOut' = operators(oIn, names)
    /\ opc' = "done"
    /\ UNCHANGED <<oIn, fIn, fOut, fpc, cacheVars, groupVars, indexVars>>

NextOperators == AddOperator \/ AddBinOp \/ RunOperators

SpecOperators == InitOperators /\ [][NextOperators]_vars

(***************************************************************************)
(* Claims about `operators` (SpecOperators)                                *)
(***************************************************************************)
\* The entries of the catalog m under the oid o.
OperatorsAt(m, o) == IF o \in DOMAIN m THEN m[o] ELSE <<>>

\* How often tree.BinOps lists the overload bo for the symbol sym.
Listed(binOps, sym, bo) ==
    IF sym \in DOMAIN binOps THEN Occurrences(binOps[sym], bo) ELSE 0

\* C14: the catalog holds every overload of every symbol of tree.BinOps, as
\* often as the symbol lists it, with its own symbol, under the oid of its
\* own return type and under no other oid; it has no other entry and no key
\* without entries.
C14_OperatorsComplete ==
    opc = "done" =>
        /\ \A sym \in Symbols, bo \in BinOps, o \in Oids \cup DOMAIN oOut :
              Occurrences(OperatorsAt(oOut, o), operator(bo, sym))
                  = IF o = bo.ReturnType.Oid THEN Listed(oIn, sym, bo) ELSE 0
        /\ \A o \in DOMAIN oOut :
              /\ oOut[o] # <<>>
              /\ \A k \in 1..Len(oOut[o]) :
                    /\ oOut[o][k].Operator \in DOMAIN oIn
                    /\ oOut[o][k].BinOp \in Range(oIn[oOut[o][k].Operator])

\* The catalog of two symbols, one of them with overloads of two return
\* types, one of which is an array.
C14_Witness ==
    /\ opc = "done"
    /\ Cardinality(DOMAIN oIn) = 2
    /\ \E sym \in DOMAIN oIn :
          /\ Len(oIn[sym]) = 2
          /\ oIn[sym][1].ReturnType # oIn[sym][2].ReturnType
          /\ oIn[sym][2].ReturnType = IntArray
    /\ Cardinality(DOMAIN oOut) >= 2
====
